---- MODULE Spec2Model ----
(***************************************************************************)
(* GitHub contribution calendar: the browser widget (class GitHubCalendar) *)
(* and the serverless proxy function (handler) of                          *)
(* src/assets/js/github-calendar.js.                                       *)
(*                                                                         *)
(* Dates.  A calendar date is an integer, the number of days since         *)
(* 1970-01-01 (19732 is 2024-01-10).  An ISO date string "YYYY-MM-DD" is   *)
(* the integer of the date it names, so that the string comparison of the  *)
(* code (a.date < b.date) is the integer order.  A JS Date the code has    *)
(* normalised with setHours(0,0,0,0) is the integer of its LOCAL calendar  *)
(* date; setDate(getDate() + k) is + k on it.  The widget's dates are local *)
(* to the browser's zone and the proxy function's to its own.              *)
(***************************************************************************)
EXTENDS Integers, Sequences, FiniteSets, TLC

VARIABLES
    \* ---- the environment of one widget instance
    today,          \* new Date() with setHours(0,0,0,0): the local date
    tzEast,         \* TRUE when the browser's zone is east of UTC (offset > 0)
    container,      \* document.getElementById(containerId) found an element
    options,        \* this.options
    \* ---- the widget
    pc,             \* position of fetchContributions: "init", "proxy", "rest", "done"
    ui,             \* what container.innerHTML shows: "none", "loading", "calendar", "error"
    errorMsg,       \* the message of the error panel
    contributions,  \* this.contributions
    grid,           \* the rows generateCalendarGrid produced at the last render()
    proxyQuery,     \* the query parameters of the proxy request
    proxyRes,       \* the shape of what the proxy request settled with
    proxyErr,       \* the error caught as proxyErr (console.warn)
    restErr,        \* the error caught as restErr (console.error)
    restStart,      \* startDate of the REST fallback
    \* ---- fetchEventsAllPages and the REST endpoint
    page,           \* the loop variable
    events,         \* what fetchEventsAllPages returned (const events, line 126)
    allEvents,      \* the accumulator
    requests,       \* the pages requested from the REST endpoint, in order
    pagesSeen,      \* the bodies of the pages accepted so far
    lastRes,        \* the response inspected last
    \* ---- the window computations, applied to free inputs
    wIn, wOut,
    \* ---- the proxy function
    hReq, hRes,
    \* ---- getContributionLevel applied to free inputs
    lvIn, lvOut

widgetVars == <<today, tzEast, container, options, pc, ui, errorMsg,
                contributions, grid, proxyQuery, proxyRes, proxyErr, restErr,
                restStart,
                page, events, allEvents, requests, pagesSeen, lastRes>>
vars == <<widgetVars, wIn, wOut, hReq, hRes, lvIn, lvOut>>

\* An unset value, and a set one.
None == <<>>
Some(x) == <<x>>

(***************************************************************************)
(* Bounds of the model.                                                    *)
(***************************************************************************)
NumTodays == 2        \* how many consecutive values `today` takes in Spec
MaxDaysToShow == 2    \* daysToShow ranges over 1..MaxDaysToShow in Spec
MaxPerPage == 2       \* perPage ranges over 1..MaxPerPage
MaxPages == 2         \* maxPages ranges over 0..MaxPages
MaxPayload == 2       \* entries of the proxy's days array
MaxCount == 12        \* counts and maxima given to getContributionLevel
MaxWindowDays == 12   \* day counts given to the window computations
MaxUpstream == 4      \* days the GraphQL upstream returns

\* 2024-01-10, a Wednesday
Jan10 == 19723 + 9
\* `today` of the widget runs: 2024-01-07, a Sunday, and the days after it
Todays == (Jan10 - 3)..(Jan10 - 3 + NumTodays - 1)

(***************************************************************************)
(* Date helpers.                                                           *)
(***************************************************************************)
\* Date.prototype.getDay of a local date: 1970-01-01 was a Thursday (4).
GetDay(d) == (d + 4) % 7

\* d.toISOString().split("T")[0] of a Date at LOCAL midnight of date d:
\* toISOString prints the instant in UTC, and local midnight east of UTC is
\* still the previous day in UTC.
ToISODate(d, east) == IF east THEN d - 1 ELSE d

\* new Date(iso + "T00:00:00"): a date-time string without offset is parsed
\* as local time, so the local date is the date the string names.
ParseLocal(iso) == iso

\* (x.getDay() - weekStart + 7) % 7; JS's % keeps the sign of the dividend.
DayShift(d, weekStart) ==
    LET n == GetDay(d) - weekStart + 7
    IN IF n >= 0 THEN n % 7 ELSE 0 - ((0 - n) % 7)

(***************************************************************************)
(* getContributionLevel(count, max), lines 175-183.  count / max <= q/4    *)
(* over the non-negative integers is 4 * count <= q * max (the quotients   *)
(* of small integers are far from the thresholds except when equal, and    *)
(* 0.25, 0.5, 0.75 are exact doubles).                                     *)
(***************************************************************************)
\* the quartile bounds taken as exclusive
LevelStrict(count, max) ==
    IF count = 0 THEN 0
    ELSE IF max = 0 THEN 1
    ELSE IF 4 * count < max THEN 1
    ELSE IF 4 * count < 2 * max THEN 2
    ELSE IF 4 * count < 3 * max THEN 3
    ELSE 4

getContributionLevel(count, max) ==
    IF count = 0 THEN 0
    ELSE IF max = 0 THEN 1
    ELSE IF 4 * count <= max THEN 1
    ELSE IF 4 * count <= 2 * max THEN 2
    ELSE IF 4 * count <= 3 * max THEN 3
    ELSE 4

(***************************************************************************)
(* The three window computations.                                          *)
(***************************************************************************)
DefaultDaysToShow == 167

\* Number(this.options.daysToShow) || 167: only 0 (and NaN) is falsy.
ProxyDaysToShow(opts) ==
    IF opts.daysToShow = 0 THEN DefaultDaysToShow ELSE opts.daysToShow

\* Number(this.options.weekStart) || 0
ProxyWeekStart(opts) == opts.weekStart

\* fromBase without the shift to the start of the week
ProxyFromUnaligned(t, opts) == t - (ProxyDaysToShow(opts) - 1)

\* lines 69-84: fromAligned of the proxy path
ProxyFromAligned(t, opts) ==
    LET fromBase == t - (ProxyDaysToShow(opts) - 1)
    IN fromBase - DayShift(fromBase, ProxyWeekStart(opts))

\* lines 137-147: startDate of the REST fallback (no coercion of daysToShow)
RestStartDate(t, opts) ==
    LET startBase == t - (opts.daysToShow - 1)
    IN startBase - DayShift(startBase, opts.weekStart)

\* new Date(new Date(toISO).setFullYear(getFullYear() - 1)): the same date a
\* year earlier.  Every date of the model lies between 2023-03-01 and
\* 2024-02-28, where that is 365 days back.
OneYearBefore(d) == d - 365

\* lines 372-407: [from, to] of the proxy function.  q.has is the set of
\* query parameters that were sent; q.days, q.weekStart, q.from, q.to are
\* their values, a number standing for its decimal string (a non-empty
\* string is truthy, also "0").  serverToday is the function's own
\* new Date() at local midnight.
HandlerTo(q, serverToday) == IF "to" \in q.has THEN q.to ELSE serverToday

HandlerFromByDays(q, serverToday) ==
    LET toDate == HandlerTo(q, serverToday)
        fromDate == toDate - (q.days - 1)
    IN IF "weekStart" \in q.has /\ q.weekStart \in {0, 1}
       THEN fromDate - DayShift(fromDate, q.weekStart)
       ELSE fromDate

HandlerFrom(q, serverToday) ==
    IF "days" \in q.has /\ q.days > 0
    THEN HandlerFromByDays(q, serverToday)
    ELSE IF "from" \in q.has THEN q.from
    ELSE OneYearBefore(HandlerTo(q, serverToday))

(***************************************************************************)
(* Sorting and rendering.                                                  *)
(***************************************************************************)
RECURSIVE InsertByDate(_, _)
InsertByDate(x, s) ==
    IF s = <<>> THEN <<x>>
    ELSE IF x.date < Head(s).date THEN <<x>> \o s
    ELSE <<Head(s)>> \o InsertByDate(x, Tail(s))

\* list.sort((a, b) => (a.date < b.date ? -1 : 1)), lines 109, 263, 492.
\* The lists of the model hold each date once (section 3 of the spec: dates
\* are unique within a result set), so the comparator orders them totally.
RECURSIVE SortByDate(_)
SortByDate(s) ==
    IF s = <<>> THEN <<>>
    ELSE InsertByDate(s[Len(s)], SortByDate(SubSeq(s, 1, Len(s) - 1)))

MaxOf(S) ==
    IF S = {} THEN 0
    ELSE LET x == CHOOSE y \in S : \A z \in S : z <= y IN x

\* Math.max(0, ...this.contributions.map((c) => c.count)), lines 220-223
MaxContributions(contribs) ==
    MaxOf({0} \cup {contribs[i].count : i \in 1..Len(contribs)})

\* contributionsMap.get(dateStr) || 0, lines 278-282 and 298
CountOn(contribs, dateStr) ==
    IF \E i \in 1..Len(contribs) : contribs[i].date = dateStr
    THEN LET i == CHOOSE j \in 1..Len(contribs) :
                    /\ contribs[j].date = dateStr
                    /\ \A k \in (j + 1)..Len(contribs) : contribs[k].date # dateStr
         IN contribs[i].count
    ELSE 0

\* lines 265-275: startDate of the grid, in local dates
GridStartDate(contribs, opts) ==
    LET firstDate == ParseLocal(SortByDate(contribs)[1].date)
    IN firstDate - DayShift(firstDate, opts.weekStart)

\* lines 292-315: one slot of a week
GridSlot(currentDate, contribs, max, t, east) ==
    LET dateStr == ToISODate(currentDate, east)
        count == CountOn(contribs, dateStr)
    IN IF currentDate <= t
       THEN [kind |-> "day", date |-> dateStr, count |-> count,
             level |-> getContributionLevel(count, max)]
       ELSE [kind |-> "empty", date |-> 0, count |-> 0, level |-> 0]

\* generateCalendarGrid(maxContributions), lines 252-321: the weeks, each a
\* sequence of 7 slots; no week at all for an empty list (the "Nenhuma
\* contribuicao registrada" placeholder).
generateCalendarGrid(contribs, max, t, east, opts) ==
    IF Len(contribs) = 0 THEN <<>>
    ELSE LET startDate == GridStartDate(contribs, opts)
             nWeeks == IF startDate > t THEN 0 ELSE ((t - startDate) \div 7) + 1
         IN [w \in 1..nWeeks |->
               [day \in 1..7 |->
                  GridSlot(startDate + 7 * (w - 1) + (day - 1),
                           contribs, max, t, east)]]

(***************************************************************************)
(* The REST endpoint and fetchEventsAllPages, lines 18-58.                 *)
(***************************************************************************)
NoHeader == "absent"

\* Number(header) for the header values of the model
HeaderNumber(h) == IF h = "0" \/ h = "" THEN 0 ELSE 57

\* res.ok
IsOk(status) == status >= 200 /\ status <= 299

\* lines 30-38: the rate-limit check, made before any other
RateLimited(res) == res.remaining # NoHeader /\ HeaderNumber(res.remaining) = 0

RateLimitMessage(res) ==
    IF res.reset # NoHeader /\ res.reset # ""
    THEN "Limite da API atingido. (reseta em <reset>)"
    ELSE "Limite da API atingido."

\* PageOutcome with the rate-limit check made after the status checks
PageOutcomeStatusFirst(res, perPage) ==
    IF res.kind = "reject" THEN [do |-> "throw", msg |-> "Failed to fetch"]
    ELSE IF res.status = 404
         THEN [do |-> "throw", msg |-> "Usuario GitHub nao encontrado (404)."]
    ELSE IF res.status = 403
         THEN [do |-> "throw", msg |-> "Acesso negado / limite da API atingido (403)."]
    ELSE IF ~IsOk(res.status)
         THEN [do |-> "throw", msg |-> "Erro ao buscar eventos do GitHub: <status> <text>"]
    ELSE IF RateLimited(res) THEN [do |-> "throw", msg |-> RateLimitMessage(res)]
    ELSE IF res.body.kind = "unparseable"
         THEN [do |-> "throw", msg |-> "Unexpected token in JSON"]
    ELSE IF res.body.kind # "events" \/ Len(res.body.events) = 0
         THEN [do |-> "break", msg |-> ""]
    ELSE IF Len(res.body.events) < perPage THEN [do |-> "pushbreak", msg |-> ""]
    ELSE [do |-> "push", msg |-> ""]

\* What one iteration of the loop does with the response to its request,
\* lines 25-54: throw, leave the loop, or go on to the next page.
PageOutcome(res, perPage) ==
    IF res.kind = "reject" THEN [do |-> "throw", msg |-> "Failed to fetch"]
    ELSE IF RateLimited(res) THEN [do |-> "throw", msg |-> RateLimitMessage(res)]
    ELSE IF res.status = 404
         THEN [do |-> "throw", msg |-> "Usuario GitHub nao encontrado (404)."]
    ELSE IF res.status = 403
         THEN [do |-> "throw", msg |-> "Acesso negado / limite da API atingido (403)."]
    ELSE IF ~IsOk(res.status)
         THEN [do |-> "throw", msg |-> "Erro ao buscar eventos do GitHub: <status> <text>"]
    ELSE IF res.body.kind = "unparseable"
         THEN [do |-> "throw", msg |-> "Unexpected token in JSON"]
    ELSE IF res.body.kind # "events" \/ Len(res.body.events) = 0
         THEN [do |-> "break", msg |-> ""]
    ELSE IF Len(res.body.events) < perPage THEN [do |-> "pushbreak", msg |-> ""]
    ELSE [do |-> "push", msg |-> ""]

\* the page put in front of the accumulator instead of behind it
PushFront(all, pageEvents) == pageEvents \o all

\* allEvents.push(...pageEvents), line 53
PushAll(all, pageEvents) == all \o pageEvents

(***************************************************************************)
(* The REST fallback's aggregation, lines 128-161.                         *)
(***************************************************************************)
\* An event's created_at is a UTC timestamp, so
\* new Date(ev.created_at).toISOString().split("T")[0] is its UTC date; an
\* event without created_at is skipped (line 131).
EventsOn(evs, dateStr) ==
    Cardinality({i \in 1..Len(evs) :
                    evs[i].hasCreatedAt /\ evs[i].date = dateStr})

\* lines 150-159: one entry per local date from startDate through today
RestContributions(evs, t, east, opts) ==
    LET startDate == RestStartDate(t, opts)
        n == IF startDate > t THEN 0 ELSE t - startDate + 1
    IN [i \in 1..n |->
          LET dateStr == ToISODate(startDate + (i - 1), east)
          IN [date |-> dateStr, count |-> EventsOn(evs, dateStr)]]

(***************************************************************************)
(* The widget: constructor, init() and fetchContributions, lines 2-15,     *)
(* 61-172, 323-325.                                                        *)
(***************************************************************************)
Options ==
    [weekStart : {0, 1}, daysToShow : 1..MaxDaysToShow,
     perPage : 1..MaxPerPage, maxPages : 0..MaxPages]

\* What the proxy request can come back with.  An entry of days is an
\* object {date, count} or null; the objects of one array have distinct dates.
PayloadEntries(t) ==
    [isNull : {FALSE}, date : {t - 8, t - 1, t}, count : {0, 1, 4}]
    \cup {[isNull |-> TRUE, date |-> 0, count |-> 0]}

DistinctDates(ds) ==
    \A i, j \in 1..Len(ds) :
        (i # j /\ ~ds[i].isNull /\ ~ds[j].isNull) => ds[i].date # ds[j].date

PayloadDays(t) ==
    {ds \in UNION {[1..n -> PayloadEntries(t)] : n \in 0..MaxPayload} :
        DistinctDates(ds)}

ProxyResponses(t) ==
    [kind : {"reject", "notok", "unparseable", "nodays"}, days : {<<>>}]
    \cup [kind : {"days"}, days : PayloadDays(t)]

\* What a request for a page of events can come back with.
EventKinds(t) ==
    {[hasCreatedAt |-> TRUE, date |-> t - 1], [hasCreatedAt |-> FALSE, date |-> 0]}

PageBodies(t, perPage) ==
    [kind : {"unparseable", "notarray"}, events : {<<>>}]
    \cup [kind : {"events"},
          events : UNION {[1..n -> EventKinds(t)] : n \in 0..perPage}]

NoBody == [kind |-> "text", events |-> <<>>]

RestResponses(t, perPage) ==
    {[kind |-> "reject", remaining |-> NoHeader, reset |-> NoHeader,
      status |-> 0, body |-> NoBody]}
    \cup [kind : {"response"}, remaining : {"57"}, reset : {NoHeader},
          status : {200}, body : PageBodies(t, perPage)]
    \cup [kind : {"response"}, remaining : {NoHeader, "57"}, reset : {NoHeader},
          status : {403, 404, 500}, body : {NoBody}]
    \cup [kind : {"response"}, remaining : {"0", ""},
          reset : {NoHeader, "1704931200"},
          status : {200, 403, 404, 500}, body : {NoBody}]
    \cup [kind : {"response"}, remaining : {"0"}, reset : {NoHeader},
          status : {200}, body : PageBodies(t, perPage)]

Init ==
    /\ today \in Todays
    /\ tzEast \in BOOLEAN
    /\ container \in BOOLEAN
    /\ options \in Options
    /\ pc = "init"
    /\ ui = "none"
    /\ errorMsg = None
    /\ contributions = <<>>
    /\ grid = <<>>
    /\ proxyQuery = None
    /\ proxyRes = None
    /\ proxyErr = None
    /\ restErr = None
    /\ restStart = None
    /\ page = 0
    /\ events = None
    /\ allEvents = <<>>
    /\ requests = <<>>
    /\ pagesSeen = <<>>
    /\ lastRes = None
    /\ wIn = None /\ wOut = None
    /\ hReq = None /\ hRes = None
    /\ lvIn = None /\ lvOut = None

\* render(), lines 217-249, with the sort generateCalendarGrid makes in place
Render(contribs) ==
    /\ contributions' = SortByDate(contribs)
    /\ grid' = generateCalendarGrid(contribs, MaxContributions(contribs),
                                    today, tzEast, options)
    /\ ui' = "calendar"

\* lines 126-163 after fetchEventsAllPages has returned evs
FallbackRenders(evs) ==
    /\ events' = Some(evs)
    /\ restStart' = Some(RestStartDate(today, options))
    /\ Render(RestContributions(evs, today, tzEast, options))
    /\ pc' = "done"
    /\ UNCHANGED <<restErr, errorMsg>>

DefaultErrorMessage == "Erro ao carregar contribuicoes do GitHub."

\* the catch block without its call of renderError
FallbackFailsSilently(msg) ==
    /\ restErr' = Some(msg)
    /\ pc' = "done"
    /\ UNCHANGED <<events, restStart, contributions, grid, ui, errorMsg>>

\* lines 164-170: catch (restErr), renderError
FallbackFails(msg) ==
    /\ restErr' = Some(msg)
    /\ errorMsg' = Some(IF msg = "" THEN DefaultErrorMessage ELSE msg)
    /\ ui' = "error"
    /\ pc' = "done"
    /\ UNCHANGED <<events, restStart, contributions, grid>>

\* lines 61-95: up to the await of the proxy request
FetchContributions ==
    /\ pc = "init"
    /\ IF ~container
       THEN /\ pc' = "done"
            /\ UNCHANGED <<ui, proxyQuery>>
       ELSE /\ ui' = "loading"
            /\ proxyQuery' = Some([from |-> ProxyFromAligned(today, options),
                                   to |-> today,
                                   days |-> ProxyDaysToShow(options),
                                   weekStart |-> ProxyWeekStart(options)])
            /\ pc' = "proxy"
    /\ contributions' = <<>>
    /\ UNCHANGED <<today, tzEast, container, options, errorMsg, grid, proxyRes,
                   proxyErr, restErr, restStart, page, events, allEvents, requests,
                   pagesSeen, lastRes, wIn, wOut, hReq, hRes, lvIn, lvOut>>

\* ProxyThrows without the check of payload.days.length
ProxyAcceptsEmpty(r) ==
    IF r.kind = "reject" THEN "Failed to fetch"
    ELSE IF r.kind = "notok" THEN "Proxy indisponivel: <status> <text>"
    ELSE IF r.kind = "unparseable" THEN "Unexpected token in JSON"
    ELSE IF r.kind = "nodays"
         THEN "Proxy retornou dados invalidos ou vazios."
    ELSE IF \E i \in 1..Len(r.days) : r.days[i].isNull
         THEN "Cannot read properties of null (reading 'date')"
    ELSE ""

\* The error the try block of lines 67-118 throws on response r, "" when it
\* throws none.  payload.days.map((d) => ({date: d.date, ...})) throws a
\* TypeError on a null entry.
ProxyThrows(r) ==
    IF r.kind = "reject" THEN "Failed to fetch"
    ELSE IF r.kind = "notok" THEN "Proxy indisponivel: <status> <text>"
    ELSE IF r.kind = "unparseable" THEN "Unexpected token in JSON"
    ELSE IF r.kind = "nodays" \/ Len(r.days) = 0
         THEN "Proxy retornou dados invalidos ou vazios."
    ELSE IF \E i \in 1..Len(r.days) : r.days[i].isNull
         THEN "Cannot read properties of null (reading 'date')"
    ELSE ""

\* What is kept of a proxy response: its kind, the length of its days array
\* and whether an entry of it is null.
Shape(r) ==
    [kind |-> r.kind, n |-> Len(r.days),
     hasNull |-> \E i \in 1..Len(r.days) : r.days[i].isNull]

\* lines 104-113
AdoptDays(days) ==
    [i \in 1..Len(days) |-> [date |-> days[i].date, count |-> days[i].count]]

\* lines 96-126 on response r: on a throw the catch block calls
\* fetchEventsAllPages, which runs up to its first await (or returns at once
\* when maxPages < 1).
ProxySettlesWith(r) ==
    /\ proxyRes' = Some(Shape(r))
    /\ IF ProxyThrows(r) = ""
       THEN /\ Render(AdoptDays(r.days))
            /\ pc' = "done"
            /\ UNCHANGED <<proxyErr, page, requests, events, restStart,
                           restErr, errorMsg>>
       ELSE /\ proxyErr' = Some(ProxyThrows(r))
            /\ page' = 1
            /\ IF 1 <= options.maxPages
               THEN /\ requests' = Append(requests, 1)
                    /\ pc' = "rest"
                    /\ UNCHANGED <<events, restStart, restErr, errorMsg,
                                   contributions, grid, ui>>
               ELSE /\ FallbackRenders(<<>>)
                    /\ UNCHANGED requests
    /\ UNCHANGED <<today, tzEast, container, options, proxyQuery, allEvents,
                   pagesSeen, lastRes, wIn, wOut, hReq, hRes, lvIn, lvOut>>

\* lines 95-126: the proxy request settles with any response
ProxySettles ==
    /\ pc = "proxy"
    /\ \E r \in ProxyResponses(today) : ProxySettlesWith(r)

\* lines 25-55 and 126-170: the request for `page` settles and the loop runs
\* to its next await, to its return or to its throw.
PageSettles ==
    /\ pc = "rest"
    /\ \E res \in RestResponses(today, options.perPage) :
        LET out == PageOutcome(res, options.perPage)
            all == IF out.do \in {"push", "pushbreak"}
                   THEN PushAll(allEvents, res.body.events) ELSE allEvents
        IN /\ lastRes' = Some(res)
           /\ allEvents' = all
           /\ pagesSeen' = IF out.do \in {"push", "pushbreak"}
                           THEN Append(pagesSeen, res.body.events) ELSE pagesSeen
           /\ IF out.do = "throw"
              THEN /\ FallbackFails(out.msg)
                   /\ UNCHANGED <<page, requests>>
              ELSE IF out.do = "push" /\ page + 1 <= options.maxPages
              THEN /\ page' = page + 1
                   /\ requests' = Append(requests, page + 1)
                   /\ UNCHANGED <<pc, events, restStart, restErr, errorMsg,
                                  contributions, grid, ui>>
              ELSE /\ FallbackRenders(all)
                   /\ page' = IF out.do = "push" THEN page + 1 ELSE page
                   /\ UNCHANGED requests
    /\ UNCHANGED <<today, tzEast, container, options, proxyQuery, proxyRes,
                   proxyErr, wIn, wOut, hReq, hRes, lvIn, lvOut>>

Next == FetchContributions \/ ProxySettles \/ PageSettles

Spec == Init /\ [][Next]_vars

(***************************************************************************)
(* Fallback trigger.                                                       *)
(***************************************************************************)
\* fetchEventsAllPages has been called
FallbackInvoked == page >= 1

\* render() was called with what the proxy sent
RenderedProxyResult == ui = "calendar" /\ events = None

ProxyFailedResponse(r) ==
    r.kind \in {"reject", "notok", "unparseable", "nodays"} \/ r.n = 0

\* C1 as stated: every failed proxy call (fetch rejected, HTTP status not
\* ok, unparseable body, no days array, empty days array) invokes the REST
\* fallback and its result is never rendered; a proxy response that is
\* HTTP-ok with a non-empty days array issues no REST request.
FallbackTriggerAsStated ==
    \A i \in 1..Len(proxyRes) :
        LET r == proxyRes[i]
        IN /\ ProxyFailedResponse(r) => (FallbackInvoked /\ ~RenderedProxyResult)
           /\ (r.kind = "days" /\ r.n > 0) => requests = <<>>

\* C1, amended: as stated, but a non-empty days array issues no REST request
\* only when none of its entries is null; with a null entry the fallback is
\* invoked as for any other malformed days field.
FallbackTrigger ==
    \A i \in 1..Len(proxyRes) :
        LET r == proxyRes[i]
        IN /\ ProxyFailedResponse(r) => (FallbackInvoked /\ ~RenderedProxyResult)
           /\ (r.kind = "days" /\ r.n > 0 /\ ~r.hasNull)
                 => (requests = <<>> /\ ~FallbackInvoked /\ RenderedProxyResult)
           /\ (r.kind = "days" /\ r.hasNull)
                 => (FallbackInvoked /\ ~RenderedProxyResult)

\* the proxy sent {days: []} and the calendar on screen was built from events
\* of the REST endpoint
FallbackTriggerWitness ==
    /\ proxyRes # None /\ proxyRes[1].kind = "days" /\ proxyRes[1].n = 0
    /\ ui = "calendar" /\ events # None /\ Len(events[1]) > 0
    /\ Len(requests) >= 1

(***************************************************************************)
(* Terminal states.                                                        *)
(***************************************************************************)
\* every step of a run brings it nearer to its end: at most one step to
\* send the proxy request, one for its response, one per page
StepsLeft ==
    IF pc = "init" THEN options.maxPages + 2
    ELSE IF pc = "proxy" THEN options.maxPages + 1
    ELSE IF pc = "rest" THEN options.maxPages + 1 - page
    ELSE 0

TerminalStates ==
    /\ (ui = "error") <=> (proxyErr # None /\ restErr # None)
    /\ (ui = "error") <=> (errorMsg # None)
    /\ pc \in {"proxy", "rest"} => ui = "loading"
    /\ (pc = "done" /\ container) => ui \in {"calendar", "error"}
    /\ (pc = "done" /\ proxyErr # None /\ restErr = None) => ui = "calendar"
    /\ restErr # None => (proxyErr # None /\ pc = "done")

\* C2: the error panel is shown exactly when the proxy path and the REST
\* fallback both failed; while a request is pending the loading placeholder
\* is shown; a finished run shows the calendar or the error panel; what a
\* run shows at its end is shown for good, and every step brings the end
\* nearer.
ErrorOnlyOnDoubleFailure ==
    /\ []TerminalStates
    /\ [][/\ ui \in {"calendar", "error"} => ui' = ui
          /\ ui' # ui => (ui = "none" /\ ui' = "loading") \/ ui = "loading"
          /\ StepsLeft' < StepsLeft /\ StepsLeft' >= 0]_vars

\* both paths failed and the panel shows the REST error's message
ErrorOnlyOnDoubleFailureWitness ==
    /\ pc = "done" /\ ui = "error"
    /\ proxyRes # None /\ proxyRes[1].kind = "notok"
    /\ lastRes # None /\ lastRes[1].status = 404
    /\ errorMsg = restErr

(***************************************************************************)
(* Rate limit.                                                             *)
(***************************************************************************)
\* C3: a response whose X-RateLimit-Remaining header reads 0 ends the run
\* with the rate-limit error whatever its status and body: the request for
\* its page is the last one issued, and no event is returned.
RateLimitAborts ==
    \A i \in 1..Len(lastRes) :
        (lastRes[i].kind = "response" /\ lastRes[i].remaining = "0") =>
            /\ pc = "done"
            /\ restErr = Some(RateLimitMessage(lastRes[i]))
            /\ ui = "error" /\ errorMsg = restErr
            /\ Len(requests) = page
            /\ events = None
            /\ contributions = <<>>

\* page 2 answers 404 with the header at 0, after page 1 delivered events
RateLimitAbortsWitness ==
    /\ lastRes # None /\ lastRes[1].kind = "response"
    /\ lastRes[1].remaining = "0" /\ lastRes[1].status = 404
    /\ page = 2 /\ Len(allEvents) > 0

(***************************************************************************)
(* Pagination.                                                             *)
(***************************************************************************)
RECURSIVE Concat(_)
Concat(ss) == IF ss = <<>> THEN <<>> ELSE Head(ss) \o Concat(Tail(ss))

\* the response inspected last ended the loop by itself
LastPageEnds ==
    /\ lastRes # None
    /\ \/ lastRes[1].body.kind # "events"
       \/ Len(lastRes[1].body.events) < options.perPage

\* the state of the pagination at every moment of a run
PaginationState ==
    /\ requests = [k \in 1..Len(requests) |-> k]
    /\ Len(requests) <= options.maxPages
    /\ pc = "rest" => (Len(requests) = page /\ Len(pagesSeen) = page - 1)
    /\ \A k \in 1..Len(pagesSeen) :
          (k < Len(requests)) => Len(pagesSeen[k]) >= options.perPage
    /\ Len(pagesSeen) <= Len(requests)
    /\ events # None =>
          /\ events[1] = Concat(pagesSeen)
          /\ (Len(requests) > 0) =>
                (LastPageEnds \/ Len(requests) = options.maxPages)

\* C4: pages are requested as 1, 2, ..., one at a time, at most maxPages of
\* them; page k+1 is requested only after k full pages were accepted; the
\* loop returns after the first page that is no array, is empty or is short,
\* or after page maxPages, with the accepted pages concatenated in order;
\* and every step brings the end of the run nearer.
PaginationInOrder ==
    /\ []PaginationState
    /\ [][/\ Len(requests') <= Len(requests) + 1
          /\ (Len(requests') > Len(requests) /\ Len(requests) >= 1) =>
                /\ lastRes' # None
                /\ lastRes'[1].body.kind = "events"
                /\ Len(lastRes'[1].body.events) >= options.perPage
                /\ Len(pagesSeen') = Len(requests)
                /\ pagesSeen'[Len(requests)] = lastRes'[1].body.events
          /\ StepsLeft' < StepsLeft /\ StepsLeft' >= 0]_vars

\* two full pages were fetched and returned in page order
PaginationInOrderWitness ==
    /\ events # None /\ Len(requests) = 2 /\ Len(pagesSeen) = 2
    /\ pagesSeen[1] # pagesSeen[2]
    /\ Len(events[1]) = 2 * options.perPage /\ options.perPage = 2

(***************************************************************************)
(* The proxy function, handler(event), lines 346-529.                      *)
(***************************************************************************)
RECURSIVE Flatten(_)
\* lines 484-489: the days of the weeks, in the order they arrived
Flatten(weeks) ==
    IF weeks = <<>> THEN <<>>
    ELSE [i \in 1..Len(Head(weeks)) |->
             [date |-> Head(weeks)[i].date,
              count |-> Head(weeks)[i].contributionCount]]
         \o Flatten(Tail(weeks))

\* lines 495-500: days.slice(days.length - wanted) when the list is longer
KeepLast(days, wanted) ==
    IF Len(days) > wanted
    THEN SubSeq(days, Len(days) - wanted + 1, Len(days))
    ELSE days

\* the flattened list truncated as it arrived, without the sort of line 492
HandlerDaysUnsorted(q, weeks) ==
    LET days == Flatten(weeks)
    IN IF "days" \in q.has /\ q.days > 0 THEN KeepLast(days, q.days) ELSE days

\* lines 482-500
HandlerDays(q, weeks) ==
    LET days == SortByDate(Flatten(weeks))
    IN IF "days" \in q.has /\ q.days > 0 THEN KeepLast(days, q.days) ELSE days

NoWindow == [from |-> 0, to |-> 0]

\* The response to request req: req.username, whether a username resolves;
\* req.query, the query parameters; req.token, whether GITHUB_TOKEN is set;
\* req.upstream, what the GraphQL request comes back with; req.today, the
\* function's clock.  The window is the (from, to) sent upstream.
handler(req) ==
    LET q == req.query
        window == [from |-> HandlerFrom(q, req.today),
                   to |-> HandlerTo(q, req.today)]
        up == req.upstream
    IN IF ~req.username
       THEN [statusCode |-> 400, days |-> <<>>, window |-> NoWindow]
       ELSE IF ~req.token
       THEN [statusCode |-> 500, days |-> <<>>, window |-> NoWindow]
       ELSE IF up.kind = "reject"
       THEN [statusCode |-> 500, days |-> <<>>, window |-> window]
       ELSE IF up.kind = "notok"
       THEN [statusCode |-> up.status, days |-> <<>>, window |-> window]
       ELSE IF up.kind = "errors"
       THEN [statusCode |-> 500, days |-> <<>>, window |-> window]
       ELSE IF up.kind = "nulluser"
       THEN [statusCode |-> 500, days |-> <<>>, window |-> window]
       ELSE [statusCode |-> 200, days |-> HandlerDays(q, up.weeks),
             window |-> window]

(***************************************************************************)
(* The widget at rest, for the specifications that exercise one function.  *)
(***************************************************************************)
WidgetIdle ==
    /\ today = Jan10
    /\ tzEast = FALSE
    /\ container = FALSE
    /\ options = [weekStart |-> 0, daysToShow |-> DefaultDaysToShow,
                  perPage |-> 100, maxPages |-> 10]
    /\ pc = "done"
    /\ ui = "none"
    /\ errorMsg = None
    /\ contributions = <<>>
    /\ grid = <<>>
    /\ proxyQuery = None
    /\ proxyRes = None
    /\ proxyErr = None
    /\ restErr = None
    /\ restStart = None
    /\ page = 0
    /\ events = None
    /\ allEvents = <<>>
    /\ requests = <<>>
    /\ pagesSeen = <<>>
    /\ lastRes = None

(***************************************************************************)
(* getContributionLevel on every count and maximum up to MaxCount.         *)
(***************************************************************************)
InitLevel ==
    /\ WidgetIdle
    /\ lvIn \in {Some(x) : x \in [count : 0..MaxCount, max : 0..MaxCount]}
    /\ lvOut = None
    /\ wIn = None /\ wOut = None
    /\ hReq = None /\ hRes = None

ApplyLevel ==
    /\ lvOut = None
    /\ lvOut' = Some(getContributionLevel(lvIn[1].count, lvIn[1].max))
    /\ UNCHANGED <<widgetVars, wIn, wOut, hReq, hRes, lvIn>>

NextLevel == ApplyLevel

SpecLevel == InitLevel /\ [][NextLevel]_vars

(***************************************************************************)
(* The three window computations on the same inputs.                       *)
(***************************************************************************)
WindowTodays == (Jan10 - 3)..(Jan10 + 3)

InitWindow ==
    /\ WidgetIdle
    /\ wIn \in {Some(x) : x \in [today : WindowTodays,
                                 days : (0 - MaxWindowDays)..MaxWindowDays,
                                 weekStart : {0, 1}]}
    /\ wOut = None
    /\ hReq = None /\ hRes = None
    /\ lvIn = None /\ lvOut = None

WindowOptions ==
    [weekStart |-> wIn[1].weekStart, daysToShow |-> wIn[1].days,
     perPage |-> 100, maxPages |-> 10]

\* lines 69-93: the window of the widget's proxy request
WidgetProxyWindow ==
    /\ wOut = None
    /\ wOut' = Some([path |-> "proxy",
                     from |-> ProxyFromAligned(wIn[1].today, WindowOptions),
                     to |-> wIn[1].today])
    /\ UNCHANGED <<widgetVars, wIn, hReq, hRes, lvIn, lvOut>>

\* lines 137-147: the window of the widget's REST fallback
WidgetRestWindow ==
    /\ wOut = None
    /\ wOut' = Some([path |-> "rest",
                     from |-> RestStartDate(wIn[1].today, WindowOptions),
                     to |-> wIn[1].today])
    /\ UNCHANGED <<widgetVars, wIn, hReq, hRes, lvIn, lvOut>>

\* The query of lines 87-93, as the widget sends it
WidgetQuery ==
    [has |-> {"from", "to", "days", "weekStart"},
     from |-> ProxyFromAligned(wIn[1].today, WindowOptions),
     to |-> wIn[1].today,
     days |-> ProxyDaysToShow(WindowOptions),
     weekStart |-> ProxyWeekStart(WindowOptions)]

\* A query with days and weekStart alone
BareQuery ==
    [has |-> {"days", "weekStart"}, from |-> 0, to |-> 0,
     days |-> wIn[1].days, weekStart |-> wIn[1].weekStart]

\* lines 372-407: the window of the proxy function
HandlerWindow ==
    /\ wOut = None
    /\ \E q \in {WidgetQuery, BareQuery} :
          wOut' = Some([path |-> IF q = BareQuery THEN "handler" ELSE "handler-widget",
                        from |-> HandlerFrom(q, wIn[1].today),
                        to |-> HandlerTo(q, wIn[1].today)])
    /\ UNCHANGED <<widgetVars, wIn, hReq, hRes, lvIn, lvOut>>

NextWindow == WidgetProxyWindow \/ WidgetRestWindow \/ HandlerWindow

SpecWindow == InitWindow /\ [][NextWindow]_vars

(***************************************************************************)
(* The proxy function on bounded requests.                                 *)
(***************************************************************************)
UpstreamDates == (Jan10 - MaxUpstream + 1)..Jan10

\* contributionCount of a day, fixed per date
UpstreamCount(d) == d % 3

\* The days of a set of dates in any order, cut into two weeks anywhere
UpstreamWeeks ==
    {<<SubSeq(p, 1, k), SubSeq(p, k + 1, Len(p))>> :
        <<p, k>> \in {<<pp, kk>> \in
            (UNION {[1..n -> [date : UpstreamDates]] : n \in 0..MaxUpstream})
            \X (0..MaxUpstream) :
            /\ kk <= Len(pp)
            /\ \A i, j \in 1..Len(pp) : i # j => pp[i].date # pp[j].date}}

WithCounts(weeks) ==
    [w \in 1..Len(weeks) |->
        [i \in 1..Len(weeks[w]) |->
            [date |-> weeks[w][i].date,
             contributionCount |-> UpstreamCount(weeks[w][i].date)]]]

Upstreams ==
    {[kind |-> "ok", status |-> 200, weeks |-> WithCounts(w)] : w \in UpstreamWeeks}
    \cup {[kind |-> k, status |-> IF k = "notok" THEN 502 ELSE 200, weeks |-> <<>>] :
             k \in {"reject", "notok", "errors", "nulluser"}}

HandlerQueries ==
    {[has |-> {}, from |-> 0, to |-> 0, days |-> 0, weekStart |-> 0]}
    \cup [has : {{"days"}, {"days", "weekStart", "from", "to"}},
          from : {Jan10 - MaxUpstream}, to : {Jan10},
          days : (0 - 1)..(MaxUpstream + 1), weekStart : {0}]

InitHandler ==
    /\ WidgetIdle
    /\ hReq \in {Some(x) : x \in
          [username : {TRUE}, token : {TRUE}, today : {Jan10},
           query : HandlerQueries, upstream : Upstreams]
          \cup [username : BOOLEAN, token : BOOLEAN, today : {Jan10},
                query : HandlerQueries,
                upstream : {u \in Upstreams : u.kind = "reject"}]}
    /\ hRes = None
    /\ wIn = None /\ wOut = None
    /\ lvIn = None /\ lvOut = None

Handle ==
    /\ hRes = None
    /\ hRes' = Some(handler(hReq[1]))
    /\ UNCHANGED <<widgetVars, wIn, wOut, hReq, lvIn, lvOut>>

NextHandler == Handle

SpecHandler == InitHandler /\ [][NextHandler]_vars

(***************************************************************************)
(* Window alignment.                                                       *)
(***************************************************************************)
\* C5: for a positive day count N and weekStart W, each of the three window
\* computations gives a `from` on weekday W with to - from = N - 1 + shift,
\* shift in 0..6, and to = today; today = 2024-01-10, N = 10, W = 0 gives
\* from = 2023-12-31.
WindowAligned ==
    \A i \in 1..Len(wOut) :
        LET in == wIn[1]
            out == wOut[i]
        IN in.days > 0 =>
            /\ GetDay(out.from) = in.weekStart
            /\ out.to = in.today
            /\ (out.to - out.from) - (in.days - 1) \in 0..6
            /\ (in.today = Jan10 /\ in.days = 10 /\ in.weekStart = 0)
                  => out.from = Jan10 - 10

\* the proxy function, asked for 10 days from Sunday, on 2024-01-10
WindowAlignedWitness ==
    /\ wOut # None /\ wOut[1].path = "handler"
    /\ wIn[1].today = Jan10 /\ wIn[1].days = 10 /\ wIn[1].weekStart = 0
    /\ wOut[1].from = Jan10 - 10 /\ GetDay(wOut[1].from) = 0

\* C6 as stated: with a day count of 0 or below, none of the three window
\* computations gives a `from` later than `to`.
NoInvertedWindow ==
    \A i \in 1..Len(wOut) : wIn[1].days <= 0 => wOut[i].from <= wOut[i].to

\* C6, where it does hold: the widget's proxy path with a count of 0, and
\* the proxy function asked without a `from` of its own.
NoInvertedWindowWhereCoerced ==
    \A i \in 1..Len(wOut) :
        /\ (wOut[i].path = "proxy" /\ wIn[1].days = 0) =>
              wOut[i].to - wOut[i].from \in
                 (DefaultDaysToShow - 1)..(DefaultDaysToShow + 5)
        /\ (wOut[i].path = "handler" /\ wIn[1].days <= 0) =>
              wOut[i].from = OneYearBefore(wOut[i].to)

(***************************************************************************)
(* Gap filling.                                                            *)
(***************************************************************************)
\* the number of events created on date d
CreatedOn(evs, d) ==
    Cardinality({k \in 1..Len(evs) : evs[k].hasCreatedAt /\ evs[k].date = d})

\* the day list runs over the dates first..last with the events' counts
DenseFrom(first, last) ==
    /\ Len(contributions) = last - first + 1
    /\ \A k \in 1..Len(contributions) :
          /\ contributions[k].date = first + (k - 1)
          /\ contributions[k].count = CreatedOn(events[1], first + (k - 1))

\* C7 as stated: when the REST fallback succeeds, this.contributions holds
\* one entry for each date from the week-aligned start date through today,
\* ascending, with the number of events created on that date.
GapFilling ==
    (pc = "done" /\ events # None) =>
        /\ GetDay(restStart[1]) = options.weekStart
        /\ restStart[1] <= today - (options.daysToShow - 1)
        /\ restStart[1] > today - (options.daysToShow - 1) - 7
        /\ DenseFrom(restStart[1], today)

\* C7 in a zone at or west of UTC, and what the list holds east of UTC:
\* the dates one day earlier
GapFillingByZone ==
    (pc = "done" /\ events # None) =>
        /\ ~tzEast => DenseFrom(restStart[1], today)
        /\ tzEast => DenseFrom(restStart[1] - 1, today - 1)

(***************************************************************************)
(* Truncation.                                                             *)
(***************************************************************************)
FlatUpstream == Flatten(hReq[1].upstream.weeks)

Ascending(days) ==
    \A i, j \in 1..Len(days) : i < j => days[i].date < days[j].date

Entries(days) == {days[i] : i \in 1..Len(days)}

\* C8: with a positive days = N the response holds the N latest entries of
\* the flattened upstream list, ascending, or all of them when there are N
\* or fewer, whatever the order the weeks arrived in.
Truncation ==
    \A i \in 1..Len(hRes) :
        LET q == hReq[1].query
            out == hRes[i].days
        IN (hRes[i].statusCode = 200 /\ "days" \in q.has /\ q.days > 0) =>
            /\ Ascending(out)
            /\ Entries(out) \subseteq Entries(FlatUpstream)
            /\ Len(out) = IF Len(FlatUpstream) > q.days
                          THEN q.days ELSE Len(FlatUpstream)
            /\ \A e \in Entries(FlatUpstream) \ Entries(out) :
                  \A k \in 1..Len(out) : e.date < out[k].date

\* four days arrive latest week first and two are asked for
TruncationWitness ==
    /\ hRes # None /\ hRes[1].statusCode = 200
    /\ hReq[1].query.has = {"days"} /\ hReq[1].query.days = 2
    /\ Len(FlatUpstream) = 4 /\ ~Ascending(FlatUpstream)
    /\ FlatUpstream[1].date = Jan10
    /\ Len(hRes[1].days) = 2 /\ hRes[1].days[2].date = Jan10

(***************************************************************************)
(* Levels.                                                                 *)
(***************************************************************************)
\* C9: the level is in 0..4; 0 for a count of 0; 1 for a positive count with
\* a maximum of 0; 4 for count = max > 0; for max > 0 no smaller count up to
\* max has a higher level; (3, 12) gives 1 and (7, 12) gives 3.
LevelBounds ==
    \A i \in 1..Len(lvOut) :
        LET c == lvIn[1].count
            m == lvIn[1].max
            l == lvOut[i]
        IN /\ l \in 0..4
           /\ c = 0 => l = 0
           /\ (c > 0 /\ m = 0) => l = 1
           /\ (c = m /\ m > 0) => l = 4
           /\ (m > 0 /\ c <= m) =>
                 \A c2 \in 0..c : getContributionLevel(c2, m) <= l
           /\ (c > 0 /\ m > 0 /\ c <= m) =>
                 /\ l = 1 <=> 4 * c <= m
                 /\ l = 2 <=> (4 * c > m /\ 2 * c <= m)
                 /\ l = 3 <=> (2 * c > m /\ 4 * c <= 3 * m)
                 /\ l = 4 <=> 4 * c > 3 * m
           /\ (c = 3 /\ m = 12) => l = 1
           /\ (c = 7 /\ m = 12) => l = 3

\* a count on a quartile bound: 3 of 12
LevelBoundsWitness ==
    lvOut = Some(1) /\ lvIn[1].count = 3 /\ lvIn[1].max = 12

(***************************************************************************)
(* The grid.                                                               *)
(***************************************************************************)
\* the date of the slot at row w, column day of a grid that starts at start
SlotDate(start, w, day) == start + 7 * (w - 1) + (day - 1)

\* rows of 7 slots from start: the slots up to today are day cells labelled
\* with first, first + 1, ... and carry that date's count and level, the
\* slots after today are empty and lie in the last row only
GridFrom(start, first) ==
    LET max == MaxContributions(contributions)
    IN /\ Len(grid) = ((today - start) \div 7) + 1
       /\ \A w \in 1..Len(grid) :
             /\ Len(grid[w]) = 7
             /\ \A day \in 1..7 :
                   LET slot == grid[w][day]
                       d == SlotDate(start, w, day)
                   IN IF d <= today
                      THEN /\ slot.kind = "day"
                           /\ slot.date = first + (d - start)
                           /\ slot.count = CountOn(contributions, slot.date)
                           /\ slot.level = getContributionLevel(slot.count, max)
                      ELSE slot.kind = "empty" /\ w = Len(grid)

\* the list's first date shifted back to the weekStart weekday
AlignedFirstDate ==
    contributions[1].date - DayShift(contributions[1].date, options.weekStart)

\* C10 as stated: for a non-empty list the grid's rows have 7 slots, the
\* first is the list's first date shifted back to weekStart, every date from
\* there through today is one day cell with its count and level, and the
\* slots after today are empty, in the last row only.
GridCoversDates ==
    (ui = "calendar" /\ Len(contributions) > 0) =>
        GridFrom(AlignedFirstDate, AlignedFirstDate)

\* C10 in a zone at or west of UTC, and what the cells carry east of UTC:
\* the date before their slot's, with that date's count
GridCoversDatesByZone ==
    (ui = "calendar" /\ Len(contributions) > 0) =>
        /\ ~tzEast => GridFrom(AlignedFirstDate, AlignedFirstDate)
        /\ tzEast => GridFrom(AlignedFirstDate, AlignedFirstDate - 1)


(***************************************************************************)
(* The widget served by the proxy function: the query of lines 87-93 goes  *)
(* to handler, GitHub answers with every day of the window handler asks    *)
(* for, and the widget renders handler's response.                         *)
(***************************************************************************)
InitProxy ==
    /\ today \in WindowTodays
    /\ tzEast \in BOOLEAN
    /\ container = TRUE
    /\ options \in [weekStart : {0, 1}, daysToShow : 1..MaxWindowDays,
                    perPage : {100}, maxPages : {10}]
    /\ pc = "init"
    /\ ui = "none"
    /\ errorMsg = None
    /\ contributions = <<>>
    /\ grid = <<>>
    /\ proxyQuery = None
    /\ proxyRes = None
    /\ proxyErr = None
    /\ restErr = None
    /\ restStart = None
    /\ page = 0
    /\ events = None
    /\ allEvents = <<>>
    /\ requests = <<>>
    /\ pagesSeen = <<>>
    /\ lastRes = None
    /\ wIn = None /\ wOut = None
    /\ hReq = None /\ hRes = None
    /\ lvIn = None /\ lvOut = None

\* contributionCount of a day of the full calendar, positive on every day
FullCount(d) == UpstreamCount(d) + 1

\* contributionCalendar.weeks with one contributionDay for every day of
\* from..to, seven to a week
FullWeeks(from, to) ==
    [w \in 1..(IF to < from THEN 0 ELSE ((to - from) \div 7) + 1) |->
        [i \in 1..(IF from + 7 * w - 1 <= to THEN 7
                   ELSE to - (from + 7 * (w - 1)) + 1) |->
            [date |-> from + 7 * (w - 1) + (i - 1),
             contributionCount |-> FullCount(from + 7 * (w - 1) + (i - 1))]]]

\* The request the function receives for the widget's query: query.to is
\* the instant of the browser's local midnight, serverTo the date it falls
\* on by the function's clock.
ProxyRequest(serverTo) ==
    LET q == [has |-> {"from", "to", "days", "weekStart"},
              from |-> proxyQuery[1].from,
              to |-> serverTo,
              days |-> proxyQuery[1].days,
              weekStart |-> proxyQuery[1].weekStart]
    IN [username |-> TRUE, token |-> TRUE, today |-> serverTo, query |-> q,
        upstream |-> [kind |-> "ok", status |-> 200,
                      weeks |-> FullWeeks(HandlerFrom(q, serverTo),
                                          HandlerTo(q, serverTo))]]

\* lines 346-529 on the widget's request.  The function's clock is in the
\* browser's zone (the instant is today there) or in UTC (the instant is
\* the day toISOString prints).
ProxyHandles ==
    /\ pc = "proxy"
    /\ hReq = None
    /\ \E serverTo \in {today, ToISODate(today, tzEast)} :
          /\ hReq' = Some(ProxyRequest(serverTo))
          /\ hRes' = Some(handler(ProxyRequest(serverTo)))
    /\ UNCHANGED <<widgetVars, wIn, wOut, lvIn, lvOut>>

\* lines 507-520 read back by lines 96-101: the body {days: [{date, count}]}
\* of a 200, and a response that is not ok otherwise
ProxyResponse(res) ==
    IF res.statusCode = 200
    THEN [kind |-> "days",
          days |-> [i \in 1..Len(res.days) |->
                       [isNull |-> FALSE, date |-> res.days[i].date,
                        count |-> res.days[i].count]]]
    ELSE [kind |-> "notok", days |-> <<>>]

\* lines 95-126: the proxy request settles with the function's response
ProxyDelivers ==
    /\ pc = "proxy"
    /\ hRes # None
    /\ ProxySettlesWith(ProxyResponse(hRes[1]))

NextProxy == FetchContributions \/ ProxyHandles \/ ProxyDelivers

SpecProxy == InitProxy /\ [][NextProxy]_vars

\* the dates of the entries of the function's response
ResponseDates == {hRes[1].days[i].date : i \in 1..Len(hRes[1].days)}

\* the widget has rendered the function's response
ProxyRendered == pc = "done" /\ hRes # None /\ ui = "calendar"

\* C11: when the widget sends days = N and weekStart = W and the upstream
\* returns one entry for every day of the resolved window, the function's
\* response has an entry for every day from the aligned `from` through `to`,
\* every day cell the widget renders has the upstream count of its date, and
\* no cell of the first grid row has a date that is missing from the
\* response.
AlignedWindowRendered ==
    ProxyRendered =>
        /\ \A d \in (hRes[1].window.from)..(hRes[1].window.to) :
              d \in ResponseDates
        /\ \A w \in 1..Len(grid) : \A day \in 1..7 :
              grid[w][day].kind = "day" =>
                  grid[w][day].count = FullCount(grid[w][day].date)
        /\ \A day \in 1..7 :
              grid[1][day].kind = "day" => grid[1][day].date \in ResponseDates

\* What the response holds instead: the last N days of the window, so the
\* days the alignment added are not in it, and in a zone at or west of UTC
\* the first row's cells before to - (N - 1) show 0.
LastDaysRendered ==
    ProxyRendered =>
        LET to == hRes[1].window.to
            n == hReq[1].query.days
        IN /\ ResponseDates = (to - (n - 1))..to
           /\ hRes[1].window.from =
                 (to - (n - 1)) - DayShift(to - (n - 1), options.weekStart)
           /\ (~tzEast /\ to = today) =>
                 \A day \in 1..7 :
                    LET d == SlotDate(hRes[1].window.from, 1, day)
                    IN d < to - (n - 1) =>
                          /\ grid[1][day].kind = "day"
                          /\ grid[1][day].date = d
                          /\ grid[1][day].count = 0

\* 2024-01-10, N = 10, W = 0 at or west of UTC: the window starts on Sunday
\* 2023-12-31, the response on Monday 2024-01-01, and the first cell, for
\* 2023-12-31, shows 0
LastDaysRenderedWitness ==
    /\ ProxyRendered
    /\ ~tzEast /\ today = Jan10 /\ hRes[1].window.to = Jan10
    /\ options.daysToShow = 10 /\ options.weekStart = 0
    /\ hRes[1].window.from = Jan10 - 10
    /\ hRes[1].days[1].date = Jan10 - 9
    /\ grid[1][1].date = Jan10 - 10 /\ grid[1][1].count = 0

====
